---- MODULE Spec2Model ----
(***************************************************************************)
(* Model of the PDF memory-spike predictor:                                *)
(*   sidecar/app.py              the scoring service (startup + endpoints) *)
(*   tools/pdf_features_py.py    the PDF feature extractor                 *)
(*   training/memory_spike_train.py  the trainer's data loading and schema *)
(*                                                                         *)
(* Numbers: megabyte quantities are integers; fractions (image_page_ratio, *)
(* fonts_embedded_pct, size_mb of the extractor) are held in thousandths,  *)
(* so 1.0 is Milli and 0.5 is Milli \div 2.                                *)
(* Optional values: None is the empty sequence, Some(v) is <<v>>.          *)
(***************************************************************************)
EXTENDS Integers, Sequences, FiniteSets, TLC

VARIABLES
    \* ---- sidecar/app.py ----
    fs,                   \* the file system entry at PIPELINE_PATH
    pc,                   \* position of the module-level startup code
    startupError,         \* exception that ended the import, or "none"
    DEFAULT_THRESHOLD_MB, \* app.py:73
    INCLUDE_MODEL_HASH,   \* app.py:77
    MODEL_HASH,           \* app.py:173
    pipe,                 \* app.py:175, the unpickled pipeline (None before)
    loads,                \* how many times the pipeline file was unpickled
    endpoint,             \* the last request's route ("none" before any)
    body,                 \* the last /predict request's JSON body
    status,               \* the last response's HTTP status (0 before any)
    resp,                 \* the last response's JSON object
    pipeArg,              \* what the last request passed to pipe.predict
    earlier,              \* one earlier /predict exchange, kept for comparison
    \* ---- tools/pdf_features_py.py ----
    pdf,                  \* the input PDF file of the extractor
    xpc,                  \* position of the extractor script
    out,                  \* the JSON object the extractor printed
    \* ---- training/memory_spike_train.py ----
    args,                 \* parsed command line of the trainer
    csv,                  \* the file system entry at args.data
    tpc,                  \* position of main()
    df,                   \* the data frame load_data returned
    consumed,             \* the columns the fitted pipeline consumes
    manifest              \* the "features" entry of model_manifest.json

sidecarVars == <<fs, pc, startupError, DEFAULT_THRESHOLD_MB, INCLUDE_MODEL_HASH,
                 MODEL_HASH, pipe, loads, endpoint, body, status, resp, pipeArg,
                 earlier>>
extractorVars == <<pdf, xpc, out>>
trainerVars == <<args, csv, tpc, df, consumed, manifest>>
vars == <<sidecarVars, extractorVars, trainerVars>>

\* ------------------------------------------------------------------------
\* Python values
\* ------------------------------------------------------------------------
None == << >>
Some(v) == <<v>>

\* Python truthiness of an Optional[float]: None and 0.0 are falsy.
TruthyFloat(o) == o # None /\ o[1] # 0

\* Python truthiness of an Optional[str] holding a hex digest: None is falsy,
\* a 64-character hexdigest is never the empty string.
TruthyDigest(o) == o # None

\* Scale of the fractional quantities: three decimals.
Milli == 1000

\* ------------------------------------------------------------------------
\* sidecar/app.py: configuration and startup
\* ------------------------------------------------------------------------

\* Number of distinct pipeline artifacts that may be on disk.
NumArtifacts == 2
\* Largest page count of a request's feature record.
MaxPages == 2

\* What can be at PIPELINE_PATH: nothing, a directory, or a regular file.
FsStates ==
    {[kind |-> "missing", content |-> 0], [kind |-> "dir", content |-> 0]}
        \cup {[kind |-> "file", content |-> c] : c \in 1..NumArtifacts}

\* Values of the environment variable DEFAULT_THRESHOLD_MB (None: unset).
EnvThresholds == {None, Some(3501)}
\* Values of the environment variable INCLUDE_MODEL_HASH (None: unset).
EnvIncludes == {None, Some("1"), Some("TRUE"), Some("Yes"), Some("0"), Some("on")}

\* str.lower() on the values above.
Lower(s) ==
    CASE s = "TRUE" -> "true"
      [] s = "Yes" -> "yes"
      [] OTHER -> s

\* app.py:73  float(os.getenv("DEFAULT_THRESHOLD_MB", "3500.0"))
DefaultThresholdFromEnv(e) == IF e = None THEN 3500 ELSE e[1]

\* app.py:77  os.getenv("INCLUDE_MODEL_HASH", "false").lower() in {"1","true","yes"}
IncludeModelHashFromEnv(e) ==
    Lower(IF e = None THEN "false" ELSE e[1]) \in {"1", "true", "yes"}

\* hashlib.sha256 of a file's bytes: a digest that differs for different
\* contents and is never empty.
Sha256(c) == ((c + 1) * 40503) % 65536

\* Path.exists()
Exists(entry) == entry.kind # "missing"

\* app.py:87-102
ComputeSha256(entry) ==
    IF ~Exists(entry) \/ entry.kind # "file" THEN None ELSE Some(Sha256(entry.content))

\* _load_pipe falling back to a built-in pipeline when the file is missing.
LoadPipeFallback(entry) ==
    CASE entry.kind = "missing" -> [pipe |-> Some(1), error |-> "none"]
      [] entry.kind = "dir" -> [pipe |-> None, error |-> "IsADirectoryError"]
      [] OTHER -> [pipe |-> Some(entry.content), error |-> "none"]

\* app.py:115-130 with pickle.load: the pipeline object and the exception.
\* open() of a missing path raises FileNotFoundError (re-raised with a
\* message), of a directory IsADirectoryError.
LoadPipe(entry) ==
    CASE entry.kind = "missing" -> [pipe |-> None, error |-> "FileNotFoundError"]
      [] entry.kind = "dir" -> [pipe |-> None, error |-> "IsADirectoryError"]
      [] OTHER -> [pipe |-> Some(entry.content), error |-> "none"]

\* ------------------------------------------------------------------------
\* sidecar/app.py: request models
\* ------------------------------------------------------------------------

\* app.py:193-201, the declared fields of PdfFeatures.
PdfFeaturesFields ==
    {"size_mb", "pages", "image_page_ratio", "dpi_estimate", "avg_image_size_kb",
     "fonts_embedded_pct", "xref_error_count", "ocr_required", "producer"}

\* PdfFeatures with the upper bound of ocr_required left out.
ValidPdfFeaturesNoOcrBound(f) ==
    /\ PdfFeaturesFields \subseteq DOMAIN f
    /\ f.image_page_ratio >= 0 /\ f.image_page_ratio <= 1 * Milli
    /\ f.fonts_embedded_pct >= 0 /\ f.fonts_embedded_pct <= 1 * Milli
    /\ f.ocr_required >= 0

\* app.py:183-201: every field is required; three carry Field(ge=0, le=1).
ValidPdfFeatures(f) ==
    /\ PdfFeaturesFields \subseteq DOMAIN f
    /\ f.image_page_ratio >= 0 /\ f.image_page_ratio <= 1 * Milli
    /\ f.fonts_embedded_pct >= 0 /\ f.fonts_embedded_pct <= 1 * Milli
    /\ f.ocr_required >= 0 /\ f.ocr_required <= 1

\* app.py:203-213: features is required, big_mem_threshold_mb is optional.
ValidScoreRequest(b) ==
    /\ "features" \in DOMAIN b
    /\ ValidPdfFeatures(b.features)

\* The ScoreRequest object built from a valid body: undeclared keys of the
\* features are dropped, an omitted threshold is None.
ParseScoreRequest(b) ==
    [features |-> [k \in PdfFeaturesFields |-> b.features[k]],
     big_mem_threshold_mb |->
        IF "big_mem_threshold_mb" \in DOMAIN b THEN Some(b.big_mem_threshold_mb) ELSE None]

\* The example record of the module docstring (app.py:32-42) with p pages.
BaseFeatures(p) ==
    [size_mb |-> 2100, pages |-> p, image_page_ratio |-> 0, dpi_estimate |-> 150,
     avg_image_size_kb |-> 0, fonts_embedded_pct |-> 1 * Milli,
     xref_error_count |-> 0, ocr_required |-> 0, producer |-> "UnitTest"]

\* f with field k set to v.
With(f, k, v) == [x \in DOMAIN f |-> IF x = k THEN v ELSE f[x]]
\* f without field k.
Without(f, k) == [x \in DOMAIN f \ {k} |-> f[x]]

\* Feature records a client may send: in range, on and beyond each range's
\* ends, with an undeclared key, and with one field missing.
FeatureInputs ==
    {BaseFeatures(p) : p \in 1..MaxPages}
        \cup {With(BaseFeatures(1), "image_page_ratio", v) : v \in {-1, Milli, Milli + 1}}
        \cup {With(BaseFeatures(1), "fonts_embedded_pct", v) : v \in {-1, 0, Milli + 1}}
        \cup {With(BaseFeatures(1), "ocr_required", v) : v \in {-1, 1, 2}}
        \cup {[x \in PdfFeaturesFields \cup {"file"} |->
                 IF x = "file" THEN "doc.pdf" ELSE BaseFeatures(1)[x]]}
        \cup {Without(BaseFeatures(1), k) : k \in PdfFeaturesFields}

\* Threshold overrides a client may send.
ThresholdInputs == {0, 3500}

\* JSON bodies of /predict: every feature record without an override, the
\* docstring's record and one out-of-range record with each override, and a
\* body without features.
BodyInputs ==
    {[features |-> f] : f \in FeatureInputs}
        \cup {[features |-> f, big_mem_threshold_mb |-> t] :
                f \in {BaseFeatures(p) : p \in 1..MaxPages}
                        \cup {With(BaseFeatures(1), "ocr_required", 2)},
                t \in ThresholdInputs}
        \cup {[big_mem_threshold_mb |-> 0]}

\* app.py:313  float(pipe.predict(df)[0]) for the artifact p and the one-row
\* frame of the features f: a deterministic regression, artifact 1 scoring
\* around the default threshold and the others around zero.
PipePredict(p, f) == IF p = 1 THEN 3499 + f.pages ELSE (p - 1) * f.pages - 2

\* app.py:316  thr = req.big_mem_threshold_mb or DEFAULT_THRESHOLD_MB
EffectiveThreshold(reqThr, dflt) == IF TruthyFloat(reqThr) THEN reqThr[1] ELSE dflt

\* The comparison of app.py:317 made strict.
DecisionStrict(y, thr) == IF y > thr THEN "ROUTE_BIG_MEMORY" ELSE "STANDARD_PATH"

\* app.py:317
Decision(y, thr) == IF y >= thr THEN "ROUTE_BIG_MEMORY" ELSE "STANDARD_PATH"

\* The condition of app.py:325 without the INCLUDE_MODEL_HASH switch.
CarriesModelHashUnconditional(include, hash) == TruthyDigest(hash)

\* app.py:325  whether the response carries model_hash
CarriesModelHash(include, hash) == include /\ TruthyDigest(hash)

\* /predict reporting the hash of the file as it is now on disk.
BuildResponseRehash(y, thr, include, hash) ==
    IF include /\ TruthyDigest(ComputeSha256(fs))
    THEN [predicted_peak_mb |-> y, decision |-> Decision(y, thr), threshold_mb |-> thr,
          model_hash |-> ComputeSha256(fs)[1]]
    ELSE [predicted_peak_mb |-> y, decision |-> Decision(y, thr), threshold_mb |-> thr]

\* app.py:320-327
BuildResponse(y, thr, include, hash) ==
    IF CarriesModelHash(include, hash)
    THEN [predicted_peak_mb |-> y, decision |-> Decision(y, thr), threshold_mb |-> thr,
          model_hash |-> hash[1]]
    ELSE [predicted_peak_mb |-> y, decision |-> Decision(y, thr), threshold_mb |-> thr]

\* /health hashing the file again on every request.
HealthResponseRehash(entry, hash) ==
    [status |-> "ok", model_loaded |-> Exists(entry),
     model_hash |-> IF Exists(entry) THEN ComputeSha256(entry) ELSE None]

\* app.py:266-271
HealthResponse(entry, hash) ==
    [status |-> "ok", model_loaded |-> Exists(entry),
     model_hash |-> IF Exists(entry) THEN hash ELSE None]

\* ------------------------------------------------------------------------
\* sidecar/app.py: the process
\* ------------------------------------------------------------------------

ToolsIdle ==
    /\ pdf = None /\ xpc = "off" /\ out = None
    /\ args = None /\ csv = None /\ tpc = "off" /\ df = None /\ consumed = {}
    /\ manifest = None

\* The process as the import of app.py begins: the environment is read
\* (app.py:69-77), nothing is loaded and no request was served.
Init ==
    /\ fs \in FsStates
    /\ pc = "import"
    /\ startupError = "none"
    /\ \E e \in EnvThresholds : DEFAULT_THRESHOLD_MB = DefaultThresholdFromEnv(e)
    /\ \E e \in EnvIncludes : INCLUDE_MODEL_HASH = IncludeModelHashFromEnv(e)
    /\ MODEL_HASH = None
    /\ pipe = None
    /\ loads = 0
    /\ endpoint = "none"
    /\ body = << >>
    /\ status = 0
    /\ resp = << >>
    /\ pipeArg = None
    /\ earlier = None
    /\ ToolsIdle

\* Another process creates, replaces or removes the file at PIPELINE_PATH.
FsChange ==
    /\ pc \in {"import", "hashed", "serving"}
    /\ \E e \in FsStates : e # fs /\ fs' = e
    /\ UNCHANGED <<pc, startupError, DEFAULT_THRESHOLD_MB, INCLUDE_MODEL_HASH, MODEL_HASH,
                   pipe, loads, endpoint, body, status, resp, pipeArg, earlier>>
    /\ UNCHANGED <<extractorVars, trainerVars>>

\* app.py:173
StartupHash ==
    /\ pc = "import"
    /\ MODEL_HASH' = ComputeSha256(fs)
    /\ pc' = "hashed"
    /\ UNCHANGED <<fs, startupError, DEFAULT_THRESHOLD_MB, INCLUDE_MODEL_HASH, pipe, loads,
                   endpoint, body, status, resp, pipeArg, earlier>>
    /\ UNCHANGED <<extractorVars, trainerVars>>

\* app.py:175: on an exception the import fails and the process serves
\* nothing; otherwise the application starts serving.
StartupLoad ==
    /\ pc = "hashed"
    /\ LET r == LoadPipe(fs) IN
        /\ pipe' = r.pipe
        /\ startupError' = r.error
        /\ loads' = IF r.error = "none" THEN loads + 1 ELSE loads
        /\ pc' = IF r.error = "none" THEN "serving" ELSE "failed"
    /\ UNCHANGED <<fs, DEFAULT_THRESHOLD_MB, INCLUDE_MODEL_HASH, MODEL_HASH,
                   endpoint, body, status, resp, pipeArg, earlier>>
    /\ UNCHANGED <<extractorVars, trainerVars>>

\* app.py:258-271  GET /health
Health ==
    /\ pc = "serving"
    /\ endpoint' = "/health"
    /\ body' = << >>
    /\ status' = 200
    /\ resp' = HealthResponse(fs, MODEL_HASH)
    /\ pipeArg' = None
    /\ UNCHANGED <<fs, pc, startupError, DEFAULT_THRESHOLD_MB, INCLUDE_MODEL_HASH, MODEL_HASH,
                   pipe, loads, earlier>>
    /\ UNCHANGED <<extractorVars, trainerVars>>

\* app.py:273-279  GET /healthz
Healthz ==
    /\ pc = "serving"
    /\ endpoint' = "/healthz"
    /\ body' = << >>
    /\ status' = 200
    /\ resp' = [status |-> "ok"]
    /\ pipeArg' = None
    /\ UNCHANGED <<fs, pc, startupError, DEFAULT_THRESHOLD_MB, INCLUDE_MODEL_HASH, MODEL_HASH,
                   pipe, loads, earlier>>
    /\ UNCHANGED <<extractorVars, trainerVars>>

\* POST /predict with a body that fails ScoreRequest validation: the framework
\* answers 422 and the handler does not run.
PredictRejected ==
    /\ pc = "serving"
    /\ \E b \in BodyInputs :
        /\ ~ValidScoreRequest(b)
        /\ body' = b
    /\ endpoint' = "/predict"
    /\ status' = 422
    /\ resp' = << >>
    /\ pipeArg' = None
    /\ UNCHANGED <<fs, pc, startupError, DEFAULT_THRESHOLD_MB, INCLUDE_MODEL_HASH, MODEL_HASH,
                   pipe, loads, earlier>>
    /\ UNCHANGED <<extractorVars, trainerVars>>

\* app.py:281-327  POST /predict with a valid body.  The exchange may be kept
\* in `earlier` for comparison with later ones.
Predict ==
    /\ pc = "serving"
    /\ \E b \in BodyInputs :
        /\ ValidScoreRequest(b)
        /\ LET req == ParseScoreRequest(b)
               y == PipePredict(pipe[1], req.features)
               thr == EffectiveThreshold(req.big_mem_threshold_mb, DEFAULT_THRESHOLD_MB)
               r == BuildResponse(y, thr, INCLUDE_MODEL_HASH, MODEL_HASH)
           IN
            /\ body' = b
            /\ pipeArg' = Some(req.features)
            /\ resp' = r
            /\ earlier' \in {earlier, Some([body |-> b, resp |-> r])}
    /\ endpoint' = "/predict"
    /\ status' = 200
    /\ UNCHANGED <<fs, pc, startupError, DEFAULT_THRESHOLD_MB, INCLUDE_MODEL_HASH, MODEL_HASH,
                   pipe, loads>>
    /\ UNCHANGED <<extractorVars, trainerVars>>

Next ==
    \/ FsChange
    \/ StartupHash
    \/ StartupLoad
    \/ Health
    \/ Healthz
    \/ PredictRejected
    \/ Predict

Spec == Init /\ [][Next]_vars

\* ------------------------------------------------------------------------
\* Properties of the sidecar
\* ------------------------------------------------------------------------

\* The last request was a /predict that the handler answered.
Answered == endpoint = "/predict" /\ status = 200

\* C1: every answered /predict returns "ROUTE_BIG_MEMORY" exactly when the
\* pipeline's output y is at least the threshold in effect (equality routes
\* to big memory) and "STANDARD_PATH" otherwise, never another label, and
\* predicted_peak_mb is y.
C1_DecisionIsOneComparison ==
    Answered =>
        LET y == PipePredict(pipe[1], pipeArg[1]) IN
            /\ resp.decision \in {"ROUTE_BIG_MEMORY", "STANDARD_PATH"}
            /\ (resp.decision = "ROUTE_BIG_MEMORY") <=> (y >= resp.threshold_mb)
            /\ resp.predicted_peak_mb = y

\* The pipeline's output equals the threshold and the request was routed.
C1_Witness ==
    /\ Answered
    /\ PipePredict(pipe[1], pipeArg[1]) = resp.threshold_mb
    /\ resp.decision = "ROUTE_BIG_MEMORY"

\* C2: the threshold used and reported is the request's big_mem_threshold_mb
\* whenever the request provides one, whatever its value, and
\* DEFAULT_THRESHOLD_MB only when the request omits it.
C2_RequestThresholdWins ==
    Answered =>
        resp.threshold_mb =
            IF "big_mem_threshold_mb" \in DOMAIN body
            THEN body.big_mem_threshold_mb
            ELSE DEFAULT_THRESHOLD_MB

\* C3: an answered /predict carries model_hash exactly when INCLUDE_MODEL_HASH
\* is on and MODEL_HASH is not None, its value is then MODEL_HASH, and the
\* keys predicted_peak_mb, decision and threshold_mb are always there.
C3_ModelHashKey ==
    Answered =>
        /\ ("model_hash" \in DOMAIN resp) <=> (INCLUDE_MODEL_HASH /\ MODEL_HASH # None)
        /\ "model_hash" \in DOMAIN resp => Some(resp.model_hash) = MODEL_HASH
        /\ {"predicted_peak_mb", "decision", "threshold_mb"} \subseteq DOMAIN resp

\* A response that carries the hash.
C3_Witness == Answered /\ "model_hash" \in DOMAIN resp

\* A feature record that breaks the PdfFeatures schema as the claim lists it.
ViolatesSchema(f) ==
    \/ \E k \in PdfFeaturesFields : k \notin DOMAIN f
    \/ f.image_page_ratio < 0 \/ f.image_page_ratio > Milli
    \/ f.fonts_embedded_pct < 0 \/ f.fonts_embedded_pct > Milli
    \/ f.ocr_required \notin {0, 1}

\* C4: a /predict request whose features break the schema is rejected before
\* the pipeline is invoked: pipe.predict never receives a record that breaks
\* the schema and such a request gets no decision.
C4_InvalidNeverScored ==
    /\ pipeArg # None => ~ViolatesSchema(pipeArg[1])
    /\ (endpoint = "/predict" /\ "features" \in DOMAIN body /\ ViolatesSchema(body.features)) =>
            /\ pipeArg = None
            /\ status # 200
            /\ "decision" \notin DOMAIN resp

\* A request with ocr_required = 2 was rejected.
C4_Witness ==
    /\ endpoint = "/predict"
    /\ status = 422
    /\ "features" \in DOMAIN body
    /\ PdfFeaturesFields \subseteq DOMAIN body.features
    /\ body.features.ocr_required = 2

\* C5 (states): the pipeline file is unpickled at most once; a process that
\* has answered any request is one whose load succeeded; a process whose load
\* failed has answered nothing.
C5_States ==
    /\ loads <= 1
    /\ pc = "serving" => pipe # None /\ loads = 1 /\ startupError = "none"
    /\ status # 0 => pc = "serving"
    /\ pc = "failed" => status = 0 /\ pipe = None /\ startupError # "none"

\* C5 (steps): the load step with the file missing ends the startup with
\* FileNotFoundError, and once serving no step loads or replaces the pipeline.
C5_Steps ==
    /\ (pc = "hashed" /\ pc' # "hashed" /\ fs.kind = "missing") =>
            (pc' = "failed" /\ startupError' = "FileNotFoundError")
    /\ pc = "serving" => (pc' = "serving" /\ pipe' = pipe /\ loads' = loads)

\* C5: the model is loaded exactly once, at startup; a file missing at that
\* moment fails the startup with FileNotFoundError; no request is served by a
\* process whose pipeline failed to load, and no request reloads or replaces
\* the pipeline.
C5_LoadedOnceAtStartup == []C5_States /\ [][C5_Steps]_vars

\* The file was there when hashed and gone when loaded: the startup failed.
C5_Witness ==
    /\ pc = "failed"
    /\ startupError = "FileNotFoundError"
    /\ MODEL_HASH # None

\* C6 (states): a non-null model_hash returned by /health or /predict is the
\* value in MODEL_HASH.
C6_States ==
    /\ (endpoint = "/health" /\ resp.model_hash # None) => resp.model_hash = MODEL_HASH
    /\ (Answered /\ "model_hash" \in DOMAIN resp) => Some(resp.model_hash) = MODEL_HASH

\* C6 (steps): MODEL_HASH is assigned by the startup's hashing step alone.
C6_Steps == pc # "import" => MODEL_HASH' = MODEL_HASH

\* C6: across any requests and whatever happens to the file later, every
\* non-null model_hash returned by either endpoint is the SHA-256 value
\* computed once at startup.
C6_ModelHashStable == []C6_States /\ [][C6_Steps]_vars

\* /health answered with the startup's hash although the file now on disk
\* hashes differently.
C6_Witness ==
    /\ endpoint = "/health"
    /\ resp.model_hash # None
    /\ fs.kind = "file"
    /\ Some(Sha256(fs.content)) # resp.model_hash

\* C10 (steps): no step of a serving process changes the pipeline or the
\* configuration.
C10_Steps ==
    pc = "serving" =>
        UNCHANGED <<pipe, DEFAULT_THRESHOLD_MB, INCLUDE_MODEL_HASH, MODEL_HASH>>

\* C10 (states): a /predict with the same body as an earlier one got the same
\* response.
C10_States ==
    (Answered /\ earlier # None /\ earlier[1].body = body) => earlier[1].resp = resp

\* C10: requests are read-only on the pipeline, DEFAULT_THRESHOLD_MB,
\* INCLUDE_MODEL_HASH and MODEL_HASH, so two /predict requests with equal
\* bodies get equal responses whatever was served in between.
C10_RequestsReadOnly == []C10_States /\ [][C10_Steps]_vars

\* An equal body was answered again after the file on disk had changed.
C10_Witness ==
    /\ Answered
    /\ earlier # None
    /\ earlier[1].body = body
    /\ ComputeSha256(fs) # MODEL_HASH
    /\ "model_hash" \in DOMAIN resp

\* ------------------------------------------------------------------------
\* tools/pdf_features_py.py
\* ------------------------------------------------------------------------

\* Largest page count of an input PDF.
MaxPdfPages == 2

\* File sizes in bytes: empty, either side of half a thousandth of a MiB,
\* two sizes exactly halfway between thousandths, and 2.5 MiB.
ByteSizes == {0, 524, 525, 65536, 196608, 2621440}

\* Producer entries of a PDF's document information: absent, empty, a name.
ProducerInputs == {None, Some(""), Some("Adobe")}

\* reader.metadata: None when the PDF has no document information, else the
\* dictionary, here its producer entry and the number of its other entries.
MetadataInputs ==
    {None} \cup {Some([others |-> n, producer |-> q]) : n \in 0..1, q \in ProducerInputs}

\* The PDF files the extractor may be given.
PdfInputs ==
    [readable : BOOLEAN, pages : 0..MaxPdfPages, bytes : ByteSizes,
     metadata : MetadataInputs]

\* Python's round(n / d, 0) for n, d > 0 exactly representable: to the nearest
\* integer, halves to the even one.
RoundHalfEven(n, d) ==
    LET q == n \div d
        r == n % d
    IN  IF 2 * r < d THEN q
        ELSE IF 2 * r > d THEN q + 1
        ELSE IF q % 2 = 0 THEN q ELSE q + 1

\* pdf_features_py.py:50  round(getsize / (1024 * 1024), 3), in thousandths:
\* the fraction 1000 / 2^20 is reduced to 125 / 2^17 to stay within 32 bits.
SizeMb(bytes) == RoundHalfEven(bytes * (Milli \div 8), (1024 * 1024) \div 8)

\* Truthiness of reader.metadata: None and an empty dictionary are falsy.
TruthyMetadata(md) ==
    md # None /\ md[1].others + (IF md[1].producer = None THEN 0 ELSE 1) > 0

\* The expression of line 72 without its trailing `or "Unknown"`.
ProducerNoDefault(md) ==
    IF TruthyMetadata(md)
    THEN (IF md[1].producer = None THEN "Unknown" ELSE md[1].producer[1])
    ELSE "Unknown"

\* pdf_features_py.py:72
\*   (reader.metadata.producer if reader.metadata else "Unknown") or "Unknown"
Producer(md) ==
    LET inner == IF TruthyMetadata(md) THEN md[1].producer ELSE Some("Unknown")
    IN  IF inner = None \/ inner[1] = "" THEN "Unknown" ELSE inner[1]

\* pdf_features_py.py:62-73
FeatureJson(path, f) ==
    [file |-> path,
     size_mb |-> SizeMb(f.bytes),
     pages |-> f.pages,
     image_page_ratio |-> 0,
     dpi_estimate |-> 300,
     avg_image_size_kb |-> 0,
     fonts_embedded_pct |-> Milli \div 2,
     xref_error_count |-> 0,
     ocr_required |-> 0,
     producer |-> Producer(f.metadata)]

\* pdf_features_py.py:38-73 on a PDF that PdfReader can read.
Extract ==
    /\ xpc = "start"
    /\ pdf[1].readable
    /\ out' = Some(FeatureJson("doc.pdf", pdf[1]))
    /\ xpc' = "done"
    /\ UNCHANGED <<pdf, sidecarVars, trainerVars>>

\* pdf_features_py.py:44-47 on a file PdfReader cannot read: the script ends
\* with the reader's exception and prints nothing.
ExtractUnreadable ==
    /\ xpc = "start"
    /\ ~pdf[1].readable
    /\ xpc' = "failed"
    /\ UNCHANGED <<pdf, out, sidecarVars, trainerVars>>

\* ------------------------------------------------------------------------
\* training/memory_spike_train.py
\* ------------------------------------------------------------------------

\* Number of distinct CSV files that may be at the --data path.
NumTables == 2

\* Values of --data (None: flag absent) and --seed.
DataInputs == {None, Some("data.csv")}
SeedInputs == {7, 42}

\* What can be at the --data path: nothing, a directory, or a CSV file.
CsvStates ==
    {[kind |-> "missing", table |-> 0], [kind |-> "dir", table |-> 0]}
        \cup {[kind |-> "file", table |-> t] : t \in 1..NumTables}

\* memory_spike_train.py:118-129, the columns of the synthesized frame.
SynthColumns ==
    <<"size_mb", "pages", "image_page_ratio", "dpi_estimate", "avg_image_size_kb",
      "fonts_embedded_pct", "xref_error_count", "ocr_required", "producer",
      "peak_mem_mb">>

\* memory_spike_train.py:48-129: the frame is determined by the seed.
synthesize_data(seed) == [columns |-> SynthColumns, rows |-> <<"synthetic", seed>>]

\* pd.read_csv: table 1 has the training schema, the others carry the
\* extractor's "file" column as well.
read_csv(entry) ==
    [columns |-> IF entry.table <= 1 THEN SynthColumns ELSE <<"file">> \o SynthColumns,
     rows |-> <<"csv", entry.table>>]

\* Truthiness of an Optional[str]: None and "" are falsy.
TruthyStr(o) == o # None /\ o[1] # ""

\* memory_spike_train.py:132-145; pd.read_csv of a directory raises.
load_data(path, seed, entry) ==
    IF TruthyStr(path) /\ entry.kind # "missing"
    THEN IF entry.kind = "dir"
         THEN [df |-> None, error |-> "IsADirectoryError"]
         ELSE [df |-> Some(read_csv(entry)), error |-> "none"]
    ELSE [df |-> Some(synthesize_data(seed)), error |-> "none"]

\* The elements of a sequence.
Range(q) == {q[i] : i \in 1..Len(q)}

\* The sequence q without the element x (DataFrame.drop(columns=[x])).
RECURSIVE Drop(_, _)
Drop(q, x) ==
    IF q = << >> THEN << >>
    ELSE IF Head(q) = x THEN Drop(Tail(q), x) ELSE <<Head(q)>> \o Drop(Tail(q), x)

\* The numeric feature list with ocr_required forgotten.
NumFeaturesShort ==
    <<"size_mb", "pages", "image_page_ratio", "dpi_estimate",
      "avg_image_size_kb", "fonts_embedded_pct", "xref_error_count">>

\* memory_spike_train.py:172-176
NumFeatures ==
    <<"size_mb", "pages", "image_page_ratio", "dpi_estimate",
      "avg_image_size_kb", "fonts_embedded_pct", "xref_error_count", "ocr_required">>

\* memory_spike_train.py:177
CatFeatures == <<"producer">>

\* memory_spike_train.py:234
TrainerLoad ==
    /\ tpc = "start"
    /\ LET r == load_data(args[1].data, args[1].seed, csv) IN
        /\ df' = r.df
        /\ tpc' = IF r.error = "none" THEN "loaded" ELSE "failed"
    /\ UNCHANGED <<args, csv, consumed, manifest, sidecarVars, extractorVars>>

\* memory_spike_train.py:239 (train, lines 168-195): the ColumnTransformer
\* selects the categorical and numeric feature columns from X.
TrainerTrain ==
    /\ tpc = "loaded"
    /\ LET X == Drop(df[1].columns, "peak_mem_mb") IN
        /\ Range(CatFeatures) \cup Range(NumFeatures) \subseteq Range(X)
        /\ consumed' = Range(CatFeatures) \cup Range(NumFeatures)
    /\ tpc' = "trained"
    /\ UNCHANGED <<args, csv, df, manifest, sidecarVars, extractorVars>>

\* memory_spike_train.py:244-259: the artifacts are written; the manifest
\* lists the columns of the frame other than the target.
TrainerPersist ==
    /\ tpc = "trained"
    /\ manifest' = Some(Drop(df[1].columns, "peak_mem_mb"))
    /\ tpc' = "done"
    /\ UNCHANGED <<args, csv, df, consumed, sidecarVars, extractorVars>>

\* ------------------------------------------------------------------------
\* The two command-line tools, each run once on its inputs
\* ------------------------------------------------------------------------

SidecarIdle ==
    /\ fs = None /\ pc = "off" /\ startupError = "none"
    /\ DEFAULT_THRESHOLD_MB = 0 /\ INCLUDE_MODEL_HASH = FALSE
    /\ MODEL_HASH = None /\ pipe = None /\ loads = 0
    /\ endpoint = "none" /\ body = << >> /\ status = 0 /\ resp = << >>
    /\ pipeArg = None /\ earlier = None

ToolsInit ==
    /\ \E f \in PdfInputs : pdf = Some(f)
    /\ xpc = "start"
    /\ out = None
    /\ \E d \in DataInputs, s \in SeedInputs : args = Some([data |-> d, seed |-> s])
    /\ csv \in CsvStates
    /\ tpc = "start"
    /\ df = None
    /\ consumed = {}
    /\ manifest = None
    /\ SidecarIdle

ToolsNext ==
    \/ Extract
    \/ ExtractUnreadable
    \/ TrainerLoad
    \/ TrainerTrain
    \/ TrainerPersist

ToolsSpec == ToolsInit /\ [][ToolsNext]_vars

\* ------------------------------------------------------------------------
\* Properties of the tools
\* ------------------------------------------------------------------------

\* The nine names of the feature schema.
NineFields ==
    {"size_mb", "pages", "image_page_ratio", "dpi_estimate", "avg_image_size_kb",
     "fonts_embedded_pct", "xref_error_count", "ocr_required", "producer"}

\* The frame in use was synthesized.
Synthesized == df # None /\ df[1].rows[1] = "synthetic"

\* C7: the feature schema is the same nine names in all three pieces: the
\* fields of PdfFeatures, the columns the trainer's pipeline consumes (the
\* numeric plus the categorical features, which are the synthesized columns
\* without peak_mem_mb), and the keys the extractor prints other than "file".
C7_OneSchema ==
    /\ PdfFeaturesFields = NineFields
    /\ tpc \in {"trained", "done"} =>
            /\ consumed = NineFields
            /\ Synthesized => Range(Drop(df[1].columns, "peak_mem_mb")) = consumed
    /\ xpc = "done" => DOMAIN out[1] \ {"file"} = NineFields

\* The extractor printed a record and the trainer fitted on synthesized data.
C7_Witness == xpc = "done" /\ tpc = "done" /\ Synthesized

\* C8: for a readable PDF the extractor prints one object whose pages is the
\* page count, whose size_mb is the file size in MiB to the nearest
\* thousandth, whose producer is the PDF's Producer when the metadata exists
\* and the producer is non-empty and "Unknown" otherwise (never null or
\* empty), and whose other fields are the fixed placeholders; the object
\* satisfies the range constraints of PdfFeatures.
C8_ExtractorOutput ==
    xpc = "done" =>
        LET o == out[1]
            f == pdf[1]
            named == f.metadata # None /\ f.metadata[1].producer # None
                        /\ f.metadata[1].producer[1] # ""
        IN
            /\ f.readable
            /\ o.pages = f.pages
            /\ 2 * o.size_mb * 131072 - 2 * f.bytes * 125 \in -131072..131072
            /\ o.producer = IF named THEN f.metadata[1].producer[1] ELSE "Unknown"
            /\ o.producer # ""
            /\ o.image_page_ratio = 0 /\ o.dpi_estimate = 300
            /\ o.avg_image_size_kb = 0 /\ 2 * o.fonts_embedded_pct = Milli
            /\ o.xref_error_count = 0 /\ o.ocr_required = 0
            /\ ~ViolatesSchema(o)

\* A PDF whose Producer entry is the empty string came out as "Unknown".
C8_Witness ==
    /\ xpc = "done"
    /\ pdf[1].metadata # None
    /\ pdf[1].metadata[1].producer = Some("")
    /\ out[1].producer = "Unknown"

\* C9: load_data returns the CSV's contents whenever a path is provided and
\* synthesize_data(seed) only when no path is given.
C9_CsvWheneverPathGiven ==
    tpc \in {"loaded", "trained", "done"} =>
        df = IF args[1].data # None
             THEN Some(read_csv(csv))
             ELSE Some(synthesize_data(args[1].seed))

====
